---- MODULE Spec2Model ----
(***************************************************************************)
(* Model of the document ingestion pipeline of learn_rag:                  *)
(*   loaders.py  - load_single_file, load_directory, load_web_page         *)
(*   chunkers.py - get_text_splitter, chunk_documents                      *)
(*   parsers.py  - parse_file_to_elements, elements_to_langchain_docs      *)
(*   main.py     - process_and_save_to_json                                *)
(* Text (paths, extensions, metadata values, chunk ids) is a sequence of   *)
(* one-character strings, so that os.path.splitext, str.lower and the      *)
(* f-string that builds chunk_id are computed character by character.      *)
(* The external libraries (loaders, splitters, partitioner, glob) are the  *)
(* environment: each call's outcome is an input of the action.             *)
(***************************************************************************)
EXTENDS Integers, Sequences, FiniteSets

VARIABLES op, args, result, calls, disk, refs

vars == <<op, args, result, calls, disk, refs>>

(* ------------------------------ bounds -------------------------------- *)
\* longest enumeration glob.glob returns in one load_directory call
MaxFiles == 2
\* longest document list handed to chunk_documents
MaxDocs == 2
\* most chunks a splitter returns for one document
MaxChunks == 2

(* ------------------------------- text --------------------------------- *)
None == <<"<", "N", "o", "n", "e", ">">>

UpperToLower ==
    [c \in {"T", "X", "P", "D", "F", "M", "Y"} |->
        CASE c = "T" -> "t" [] c = "X" -> "x" [] c = "P" -> "p"
          [] c = "D" -> "d" [] c = "F" -> "f" [] c = "M" -> "m"
          [] c = "Y" -> "y"]

\* str.lower(), character by character
Lower(s) == [i \in 1..Len(s) |->
                IF s[i] \in DOMAIN UpperToLower THEN UpperToLower[s[i]] ELSE s[i]]

\* str.rfind(c): the last index of c in s, 0 when absent (Python: -1)
RFind(s, c) ==
    IF \E i \in 1..Len(s) : s[i] = c
    THEN CHOOSE i \in 1..Len(s) : s[i] = c /\ \A j \in (i+1)..Len(s) : s[j] # c
    ELSE 0

\* os.path.splitext(p)[1]: the text from the last dot of the last path
\* component on, empty when that component has no dot or only leading dots
SplitExt(p) ==
    LET sepIndex == RFind(p, "/")
        dotIndex == RFind(p, ".")
    IN  IF dotIndex > sepIndex
           /\ \E f \in (sepIndex + 1)..(dotIndex - 1) : p[f] # "."
        THEN SubSeq(p, dotIndex, Len(p))
        ELSE <<>>

(* ------------------------ loaders.py: the table ------------------------ *)
DEFAULT_LOADERS ==
    [e \in { <<".", "t", "x", "t">>, <<".", "p", "d", "f">>, <<".", "m", "d">>,
             <<".", "c", "s", "v">>, <<".", "d", "o", "c", "x">>,
             <<".", "p", "p", "t", "x">>, <<".", "e", "m", "l">>,
             <<".", "p", "y">> } |->
        CASE e = <<".", "t", "x", "t">>      -> "TextLoader"
          [] e = <<".", "p", "d", "f">>      -> "PyPDFLoader"
          [] e = <<".", "m", "d">>           -> "UnstructuredMarkdownLoader"
          [] e = <<".", "c", "s", "v">>      -> "CSVLoader"
          [] e = <<".", "d", "o", "c", "x">> -> "Docx2txtLoader"
          [] e = <<".", "p", "p", "t", "x">> -> "UnstructuredPowerPointLoader"
          [] e = <<".", "e", "m", "l">>      -> "UnstructuredEmailLoader"
          [] e = <<".", "p", "y">>           -> "TextLoader"]

NoLoader == "None"

(* --------------------------- the file system --------------------------- *)
\* regular files that exist
ExistingFiles ==
    { <<"a", ".", "t", "x", "t">>,
      <<"a", ".", "T", "X", "T">>,
      <<"b", ".", "p", "d", "f">>,
      <<"c", ".", "m", "d">>,
      <<"d", ".", "c", "s", "v">>,
      <<"e", ".", "d", "o", "c", "x">>,
      <<"f", ".", "p", "p", "t", "x">>,
      <<"g", ".", "e", "m", "l">>,
      <<"h", ".", "p", "y">>,
      <<"i", ".", "x", "y">>,
      <<"n", "o", "e", "x", "t">>,
      <<".", "t", "x", "t">>,
      <<"v", ".", "1", "/", "t", "x", "t">>,
      <<"a", ".", "p", "y", ".", "m", "d">> }

\* directories that exist
ExistingDirs == { <<"d", "i", "r">> }

\* what glob.glob can enumerate under the directory "dir": two files and a
\* sub-directory
DirEntries ==
    { <<"d", "i", "r", "/", "a", ".", "t", "x", "t">>,
      <<"d", "i", "r", "/", "c", ".", "x", "y">>,
      <<"d", "i", "r", "/", "s", "u", "b">> }

DirFiles == DirEntries \ { <<"d", "i", "r", "/", "s", "u", "b">> }

MissingPaths == { <<"g", "o", "n", "e", ".", "t", "x", "t">>,
                  <<"g", "o", "n", "e">> }

\* os.path.isfile
IsFile(p) == p \in ExistingFiles \cup DirFiles

\* os.path.isdir
IsDir(p) == p \in ExistingDirs \cup (DirEntries \ DirFiles)

\* the outcome of os.path.exists: os.stat(None) raises TypeError, which
\* exists() does not catch
\* variant: the existence test always succeeds
PathExists_NoCheck(p) ==
    IF p = None THEN "TypeError" ELSE "yes"

PathExists(p) ==
    IF p = None THEN "TypeError"
    ELSE IF IsFile(p) \/ IsDir(p) THEN "yes" ELSE "no"

(* ------------------------------ Records ------------------------------- *)
\* a metadata value: its Python type and its text (str(v) for an object)
Val(t, v) == [t |-> t, v |-> v]

StrVal(v) == Val("str", v)

OrigSource == StrVal(<<"o", "r", "i", "g">>)

Doc(content, metadata) == [page_content |-> content, metadata |-> metadata]

\* dict item assignment m[k] = v
SetKey(m, k, v) == [x \in DOMAIN m \cup {k} |-> IF x = k THEN v ELSE m[x]]

EmptyMeta == [k \in {} |-> StrVal(<<>>)]

NoneVal == Val("none", None)

\* dict.get(k): None when the key is absent
Get(m, k) == IF k \in DOMAIN m THEN m[k] ELSE NoneVal

NoKwargs == [k \in {} |-> NoneVal]

\* what a call returns to its caller: the exception it raises ("none" when it
\* returns normally), the value it returns, the external calls it made
Outcome(raised, value, made) == [raised |-> raised, value |-> value, calls |-> made]

(* ------------------- the external loaders (environment) ---------------- *)
DocPlain  == Doc(<<"p">>, EmptyMeta)
DocSource == Doc(<<"q">>, SetKey(EmptyMeta, "source", OrigSource))
DocPage   == Doc(<<"r">>, SetKey(EmptyMeta, "page", Val("int", <<"1">>)))

\* metadata with a value json cannot encode (coerced by str) and a list
DocObject ==
    Doc(<<"s">>,
        SetKey(SetKey(EmptyMeta, "when", Val("datetime", <<"2", "0", "2", "5">>)),
               "tags", Val("list", <<StrVal(<<"t">>)>>)))
\* metadata with a list that holds a value json cannot encode
DocNested ==
    Doc(<<"u">>,
        SetKey(EmptyMeta, "seen",
               Val("list", <<Val("datetime", <<"2", "0", "2", "5">>)>>)))

\* the document lists loader.load() can return
LoaderOutputs ==
    { <<>>, <<DocPlain>>, <<DocSource>>, <<DocPage, DocSource>>,
      <<DocObject>>, <<DocPlain, DocNested>> }

\* loader construction or loader.load() throws, or load() returns documents
LoaderOutcomes ==
    { [fail |-> TRUE, docs |-> <<>>] } \cup
    { [fail |-> FALSE, docs |-> d] : d \in LoaderOutputs }

(* ------------------------ loaders.load_single_file --------------------- *)
\* lines 61-67: the explicit class, else the table entry of the lower-cased
\* extension, else UnstructuredLoader
\* variant: the fallback is TextLoader (the fallback load_directory names at
\* line 143) instead of UnstructuredLoader
ResolveLoader_TextFallback(file_path, loader_cls) ==
    IF loader_cls # NoLoader THEN loader_cls
    ELSE LET ext == Lower(SplitExt(file_path))
         IN  IF ext \in DOMAIN DEFAULT_LOADERS THEN DEFAULT_LOADERS[ext]
             ELSE "TextLoader"

ResolveLoader(file_path, loader_cls) ==
    IF loader_cls # NoLoader THEN loader_cls
    ELSE LET ext == Lower(SplitExt(file_path))
         IN  IF ext \in DOMAIN DEFAULT_LOADERS THEN DEFAULT_LOADERS[ext]
             ELSE "UnstructuredLoader"

\* lines 92-96: a document without 'source' gets file_path, or the first
\* element of the list kwargs[path_arg_name] holds
\* variant: source is assigned without the test of line 93
StampSource_Overwrite(d, fp, kwargs, path_arg_name) ==
    LET src == IF fp # None THEN StrVal(fp) ELSE Get(kwargs, path_arg_name)
        one == IF src.t = "list" THEN src.v[1] ELSE src
    IN  Doc(d.page_content, SetKey(d.metadata, "source", one))

StampSource(d, fp, kwargs, path_arg_name) ==
    IF "source" \in DOMAIN d.metadata THEN d
    ELSE LET src == IF fp # None THEN StrVal(fp) ELSE Get(kwargs, path_arg_name)
             one == IF src.t = "list" THEN src.v[1] ELSE src
         IN  Doc(d.page_content, SetKey(d.metadata, "source", one))

LoadSingleFile(file_path, loader_cls, loader_kwargs, out) ==
    LET ex == PathExists(file_path)
    IN  IF ex = "TypeError" THEN Outcome("TypeError", <<>>, <<>>)
        ELSE IF ex = "no" THEN Outcome("none", <<>>, <<>>)
        ELSE
          LET resolved == ResolveLoader(file_path, loader_cls)
              isWeb == resolved = "WebBaseLoader"
              path_arg_name == IF isWeb THEN "web_paths" ELSE "file_path"
              kwargs == IF isWeb
                        THEN SetKey(loader_kwargs, "web_paths",
                                    Val("list", <<StrVal(file_path)>>))
                        ELSE loader_kwargs
              fp == IF isWeb THEN None ELSE file_path
              call == [fn |-> "loader", cls |-> resolved,
                       path |-> IF fp # None /\ path_arg_name = "file_path"
                                THEN fp ELSE None,
                       kwargs |-> kwargs]
          IN  IF out.fail THEN Outcome("none", <<>>, <<call>>)
              ELSE Outcome("none",
                           [i \in 1..Len(out.docs) |->
                               StampSource(out.docs[i], fp, kwargs, path_arg_name)],
                           <<call>>)

(* ------------------------- loaders.load_directory ---------------------- *)
\* lines 167-176: the loop over the enumeration, from position i on; all_docs
\* and the calls made so far are carried along; a raise leaves the loop
RECURSIVE LoadLoop_Overwrite(_, _, _, _, _, _, _)
RECURSIVE LoadLoop(_, _, _, _, _, _, _)

\* lines 170-176: what the loop does with the outcome r of loading files[i]
AfterFile(files, outs, loader_kwargs, silent_errors, i, all_docs, made, r) ==
    IF r.raised = "none"
    THEN LoadLoop(files, outs, loader_kwargs, silent_errors, i + 1,
                  all_docs \o r.value, made \o r.calls)
    ELSE IF silent_errors
    THEN LoadLoop(files, outs, loader_kwargs, silent_errors, i + 1,
                  all_docs, made \o r.calls)
    ELSE Outcome(r.raised, <<>>, made \o r.calls)

\* variant: all_docs = docs instead of all_docs.extend(docs)
LoadLoop_Overwrite(files, outs, loader_kwargs, silent_errors, i, all_docs, made) ==
    IF i > Len(files) THEN Outcome("none", all_docs, made)
    ELSE IF ~IsFile(files[i])
    THEN LoadLoop(files, outs, loader_kwargs, silent_errors, i + 1, all_docs, made)
    ELSE AfterFile(files, outs, loader_kwargs, silent_errors, i, <<>>, made,
                   LoadSingleFile(files[i], NoLoader, loader_kwargs, outs[i]))

\* lines 167-176: the loop over the enumeration, from position i on; all_docs
\* and the calls made so far are carried along; a raise leaves the loop
LoadLoop(files, outs, loader_kwargs, silent_errors, i, all_docs, made) ==
    IF i > Len(files) THEN Outcome("none", all_docs, made)
    ELSE IF ~IsFile(files[i])
    THEN LoadLoop(files, outs, loader_kwargs, silent_errors, i + 1, all_docs, made)
    ELSE AfterFile(files, outs, loader_kwargs, silent_errors, i, all_docs, made,
                   LoadSingleFile(files[i], NoLoader, loader_kwargs, outs[i]))

\* lines 180-182: whatever was raised inside the loop is caught
CatchAll(r) == IF r.raised = "none" THEN r ELSE Outcome("none", <<>>, r.calls)

\* files is what glob.glob enumerates, outs[i] what the loader of files[i] does
LoadDirectory(dir_path, loader_cls, loader_kwargs, silent_errors, files, outs) ==
    IF ~IsDir(dir_path) THEN Outcome("none", <<>>, <<>>)
    ELSE CatchAll(LoadLoop(files, outs, loader_kwargs, silent_errors, 1, <<>>, <<>>))

(* -------------------------- loaders.load_web_page ---------------------- *)
Urls == { <<"h", ":", "/", "/", "x">>, <<"h", ":", "/", "/", "y", ".", "p", "d", "f">> }

LoadWebPage(url, out) ==
    LoadSingleFile(None, "WebBaseLoader",
                   SetKey(NoKwargs, "web_paths", Val("list", <<StrVal(url)>>)), out)

(* --------------------------- chunkers.py: text ------------------------- *)
DigitChar == [d \in 0..9 |->
    CASE d = 0 -> "0" [] d = 1 -> "1" [] d = 2 -> "2" [] d = 3 -> "3"
      [] d = 4 -> "4" [] d = 5 -> "5" [] d = 6 -> "6" [] d = 7 -> "7"
      [] d = 8 -> "8" [] d = 9 -> "9"]

\* str(n) of a natural number, as an f-string formats it
RECURSIVE Digits(_)
Digits(n) == IF n < 10 THEN <<DigitChar[n]>>
             ELSE Digits(n \div 10) \o <<DigitChar[n % 10]>>

\* str.startswith
StartsWith(s, prefix) ==
    Len(s) >= Len(prefix) /\ SubSeq(s, 1, Len(prefix)) = prefix

Character  == <<"c", "h", "a", "r", "a", "c", "t", "e", "r">>
Recursive  == <<"r", "e", "c", "u", "r", "s", "i", "v", "e">>
Semantic   == <<"s", "e", "m", "a", "n", "t", "i", "c">>
CodePython == <<"c", "o", "d", "e", "_", "p", "y", "t", "h", "o", "n">>
CodeJavascript ==
    <<"c", "o", "d", "e", "_", "j", "a", "v", "a", "s", "c", "r", "i", "p", "t">>
CodeMarkdown == <<"c", "o", "d", "e", "_", "m", "a", "r", "k", "d", "o", "w", "n">>
\* a code_ name that language_map does not hold, and a name of no family
CodeRust   == <<"c", "o", "d", "e", "_", "r", "u", "s", "t">>
Bogus      == <<"b", "o", "g", "u", "s">>

KnownStrategies ==
    {Character, Recursive, Semantic, CodePython, CodeJavascript, CodeMarkdown}

\* the strategy names the model calls chunk_documents with
Strategies == {Character, Recursive, Semantic, CodePython, CodeRust, Bogus}

\* the names get_text_splitter binds positionally; the same name in
\* **kwargs is a TypeError of the call itself
PositionalNames == {"strategy", "chunk_size", "chunk_overlap"}

\* the key sets of splitter_kwargs the model uses
SplitterKwargKeys == { {}, {"separator"}, {"chunk_size"} }

\* what constructing the library splitter (or the default OpenAIEmbeddings)
\* does: it succeeds, raises ValueError, or raises another exception
CtorOutcomes == {"ok", "ValueError", "Exception"}

(* ----------------------- chunkers.get_text_splitter -------------------- *)
\* "ok" when a splitter is returned, else the exception raised
GetTextSplitter(strategy, kwarg_keys, ctor) ==
    IF kwarg_keys \cap PositionalNames # {} THEN "TypeError"
    ELSE IF strategy \in {Character, Recursive, Semantic} THEN ctor
    ELSE IF StartsWith(strategy, <<"c", "o", "d", "e", "_">>)
    THEN IF strategy \in {CodePython, CodeJavascript, CodeMarkdown}
         THEN ctor ELSE "ValueError"
    ELSE "ValueError"

(* ------------------------- chunkers.chunk_documents -------------------- *)
\* the text of a metadata value inside an f-string
Text(val) == val.v

\* original_metadata.get('source', 'doc')
SourceOrDoc(metadata) ==
    IF "source" \in DOMAIN metadata THEN Text(metadata["source"])
    ELSE <<"d", "o", "c">>

\* variant: the id leaves out the document index
ChunkId_NoDocIndex(metadata, i, strategy, chunk_idx) ==
    SourceOrDoc(metadata) \o <<"_">> \o strategy \o <<"_">> \o Digits(chunk_idx)

\* f"{source}_{i}_{strategy}_{chunk_idx}"
ChunkId(metadata, i, strategy, chunk_idx) ==
    SourceOrDoc(metadata) \o <<"_">> \o Digits(i) \o <<"_">> \o strategy
        \o <<"_">> \o Digits(chunk_idx)

\* the text of piece k the splitter cuts from a document's content
Piece(content, k) == content \o <<"#">> \o Digits(k)

\* what the library splitter returns for one document cut in n pieces:
\* SemanticChunker.create_documents is handed the text only, so its pieces
\* carry empty metadata; split_documents copies the document's metadata
SplitPieces(doc, strategy, n) ==
    [k \in 1..n |->
        Doc(Piece(doc.page_content, k - 1),
            IF strategy = Semantic THEN EmptyMeta ELSE doc.metadata)]

\* variant: the semantic branch keeps the splitter's metadata (no line 139)
BaseMetadata_NoReattach(chunk_doc, original_metadata, strategy) ==
    chunk_doc.metadata

\* line 139: the semantic branch replaces the piece's metadata by a copy of
\* the original; the other branch keeps what the splitter returned
BaseMetadata(chunk_doc, original_metadata, strategy) ==
    IF strategy = Semantic THEN original_metadata ELSE chunk_doc.metadata

\* lines 134-148: the chunks of document i (0-based), cut in n pieces
ChunksOf(doc, i, strategy, n) ==
    LET original_metadata == doc.metadata
        pieces == SplitPieces(doc, strategy, n)
    IN  [k \in 1..n |->
            Doc(pieces[k].page_content,
                SetKey(BaseMetadata(pieces[k], original_metadata, strategy),
                       "chunk_id",
                       StrVal(ChunkId(original_metadata, i, strategy, k - 1))))]

\* lines 131-153: the loop, from document j (1-based) on; a document whose
\* split throws is skipped
RECURSIVE ChunkLoop(_, _, _, _, _)

\* variant: a document whose split throws ends the loop
ChunkLoop_Break(documents, strategy, splits, j, all_chunks) ==
    IF j > Len(documents) THEN all_chunks
    ELSE IF splits[j].fail THEN all_chunks
    ELSE ChunkLoop(documents, strategy, splits, j + 1,
                   all_chunks \o ChunksOf(documents[j], j - 1, strategy, splits[j].n))

\* lines 131-153: the loop, from document j (1-based) on; a document whose
\* split throws is skipped
ChunkLoop(documents, strategy, splits, j, all_chunks) ==
    IF j > Len(documents) THEN all_chunks
    ELSE IF splits[j].fail
    THEN ChunkLoop(documents, strategy, splits, j + 1, all_chunks)
    ELSE ChunkLoop(documents, strategy, splits, j + 1,
                   all_chunks \o ChunksOf(documents[j], j - 1, strategy, splits[j].n))

\* ctor is what the splitter's construction does, splits[j] what splitting
\* documents[j] does
ChunkDocuments(documents, strategy, kwarg_keys, ctor, splits) ==
    IF documents = <<>> THEN Outcome("none", <<>>, <<>>)
    ELSE LET made == GetTextSplitter(strategy, kwarg_keys, ctor)
         IN  IF made = "ValueError" THEN Outcome("none", <<>>, <<>>)
             ELSE IF made # "ok" THEN Outcome(made, <<>>, <<>>)
             ELSE Outcome("none",
                          ChunkLoop(documents, strategy, splits, 1, <<>>),
                          [j \in 1..Len(documents) |->
                              [fn |-> "split", doc |-> j - 1]])

(* ------------------------------ parsers.py ----------------------------- *)
IsSpace(c) == c = " "

\* unstructured's clean_extra_whitespace: newlines and non-breaking spaces
\* ("~") become spaces, runs of spaces collapse to one, the ends are stripped
RECURSIVE Collapse(_)
Collapse(s) ==
    IF Len(s) < 2 THEN s
    ELSE IF IsSpace(s[1]) /\ IsSpace(s[2]) THEN Collapse(Tail(s))
    ELSE <<s[1]>> \o Collapse(Tail(s))

RECURSIVE StripLeft(_)
StripLeft(s) == IF s # <<>> /\ IsSpace(Head(s)) THEN StripLeft(Tail(s)) ELSE s

RECURSIVE StripRight(_)
StripRight(s) ==
    IF s # <<>> /\ IsSpace(s[Len(s)]) THEN StripRight(SubSeq(s, 1, Len(s) - 1))
    ELSE s

clean_extra_whitespace(text) ==
    LET spaced == [i \in 1..Len(text) |->
                      IF text[i] \in {"~", "\n"} THEN " " ELSE text[i]]
    IN  StripRight(StripLeft(Collapse(spaced)))

\* markdownify.markdownify(html): the converted text
Markdownify(html) == <<"m", "d", ":">> \o html

TableHtml == <<"<", "t", ">">>

\* an element partition() returns
Element(category, id, text, metadata) ==
    [category |-> category, id |-> id, text |-> text, metadata |-> metadata]

ElText   == Element("NarrativeText", <<"e", "1">>, <<" ", "a", " ", " ", "b", "\n">>,
                    EmptyMeta)
ElTable  == Element("Table", <<"e", "2">>, <<"x", " ", " ", "y">>,
                    SetKey(EmptyMeta, "text_as_html", StrVal(TableHtml)))
ElTableNoHtml == Element("Table", <<"e", "3">>, <<"x", "~", "y">>, EmptyMeta)
ElImage  == Element("Image", <<"e", "4">>, <<>>,
                    SetKey(EmptyMeta, "coordinates", Val("obj", <<"C", "(", ")">>)))
\* an element whose text is None: the whitespace cleaner raises TypeError
ElNoText == Element("Title", <<"e", "5">>, None, EmptyMeta)

\* the element lists partition() can return
PartitionOutputs ==
    { <<>>, <<ElText>>, <<ElTable>>, <<ElTableNoHtml, ElImage>>,
      <<ElText, ElNoText>>, <<ElNoText, ElTable>> }

PartitionOutcomes ==
    { [fail |-> TRUE, elements |-> <<>>] } \cup
    { [fail |-> FALSE, elements |-> e] : e \in PartitionOutputs }

\* variant: the table conversion does not test infer_table_structure
ParseElement_IgnoreInfer(element, infer_table_structure, has_markdownify, md_fails) ==
    LET metadata == SetKey(SetKey(element.metadata, "category",
                                  StrVal(element.category)),
                           "element_id", StrVal(element.id))
        table_html == Get(metadata, "text_as_html")
    IN  [page_content |->
             IF element.category = "Table"
                /\ table_html.t = "str" /\ table_html.v # <<>>
                /\ has_markdownify /\ ~md_fails
             THEN Markdownify(table_html.v)
             ELSE clean_extra_whitespace(element.text),
         metadata |-> metadata]

\* lines 66-101: one element; "TypeError" stands for the element whose
\* processing throws
ParseElement(element, infer_table_structure, has_markdownify, md_fails) ==
    LET metadata == SetKey(SetKey(element.metadata, "category",
                                  StrVal(element.category)),
                           "element_id", StrVal(element.id))
        cleaned == clean_extra_whitespace(element.text)
        table_html == Get(metadata, "text_as_html")
        content ==
            IF element.category = "Table" /\ infer_table_structure
               /\ table_html.t = "str" /\ table_html.v # <<>>
               /\ has_markdownify /\ ~md_fails
            THEN Markdownify(table_html.v)
            ELSE cleaned
    IN  [page_content |-> content, metadata |-> metadata]

ElementThrows(element) == element.text = None

\* variant: the except branch returns parsed_docs as filled so far
ParseFileToElements_Partial(file_path, infer_table_structure, has_markdownify, part, md_fails) ==
    IF PathExists(file_path) = "TypeError" THEN Outcome("TypeError", <<>>, <<>>)
    ELSE IF PathExists(file_path) = "no" THEN Outcome("none", <<>>, <<>>)
    ELSE IF part.fail
    THEN Outcome("none", <<>>, <<[fn |-> "partition", path |-> file_path]>>)
    ELSE Outcome("none",
                 [i \in 1..Len(IF \E j \in 1..Len(part.elements) :
                                      ElementThrows(part.elements[j])
                               THEN SubSeq(part.elements, 1,
                                      (CHOOSE k \in 1..Len(part.elements) :
                                          /\ ElementThrows(part.elements[k])
                                          /\ \A j \in 1..(k - 1) :
                                                 ~ElementThrows(part.elements[j])) - 1)
                               ELSE part.elements) |->
                     ParseElement(part.elements[i], infer_table_structure,
                                  has_markdownify, md_fails)],
                 <<[fn |-> "partition", path |-> file_path]>>)

\* part is what partition() does; md_fails whether markdownify throws
ParseFileToElements(file_path, infer_table_structure, has_markdownify, part, md_fails) ==
    LET ex == PathExists(file_path)
    IN  IF ex = "TypeError" THEN Outcome("TypeError", <<>>, <<>>)
        ELSE IF ex = "no" THEN Outcome("none", <<>>, <<>>)
        ELSE LET call == [fn |-> "partition", path |-> file_path]
             IN  IF part.fail
                    \/ \E i \in 1..Len(part.elements) :
                           ElementThrows(part.elements[i])
                 THEN Outcome("none", <<>>, <<call>>)
                 ELSE Outcome("none",
                              [i \in 1..Len(part.elements) |->
                                  ParseElement(part.elements[i],
                                               infer_table_structure,
                                               has_markdownify, md_fails)],
                              <<call>>)

\* parsers.elements_to_langchain_docs
ElementsToLangchainDocs(elements_data) ==
    [i \in 1..Len(elements_data) |->
        Doc(elements_data[i].page_content, elements_data[i].metadata)]

(* ------------------- metadata mappings as objects ----------------------- *)
\* A metadata dict is an object: refs.heap maps the address of each dict a
\* call touches to the dict's content, refs.inputs and refs.outputs give the
\* address held by each Record (or element) the call receives and returns.
\* An address names the place that created the dict and its indices.
Addr(site, i, k) == <<site, i, k>>

\* a new dict with content m at address a
Alloc(heap, a, m) == [x \in DOMAIN heap \cup {a} |-> IF x = a THEN m ELSE heap[x]]

\* d[key] = val on the dict at address a
Store(heap, a, key, val) == [heap EXCEPT ![a] = SetKey(@, key, val)]

Refs(heap, inputs, outputs) == [heap |-> heap, inputs |-> inputs, outputs |-> outputs]

NoRefs == Refs(<<>>, <<>>, <<>>)

\* the metadata dicts of the Records a call is given
InputRefs(documents) == [j \in 1..Len(documents) |-> Addr("input", j - 1, 0)]

InputHeap(documents) ==
    [a \in {Addr("input", j - 1, 0) : j \in 1..Len(documents)} |->
        documents[a[2] + 1].metadata]

\* chunkers.py:132: original_metadata = copy.deepcopy(doc.metadata)
OriginalRef(i) == Addr("deepcopy132", i, 0)

\* the dict chunk k of document i ends up with. Semantic: line 139 assigns
\* copy.deepcopy(original_metadata). Otherwise the dict the library's
\* split_documents gives the piece, a deep copy of doc.metadata
\* (TextSplitter.create_documents)
ChunkRef(i, strategy, k) ==
    IF strategy = Semantic THEN Addr("deepcopy139", i, k)
    ELSE Addr("split_documents", i, k)

\* lines 139-140 and 147: chunk k of document i gets its dict and chunk_id
StampPiece(heap, i, strategy, k) ==
    Store(Alloc(heap, ChunkRef(i, strategy, k),
                IF strategy = Semantic THEN heap[OriginalRef(i)]
                ELSE heap[Addr("input", i, 0)]),
          ChunkRef(i, strategy, k), "chunk_id",
          StrVal(ChunkId(heap[OriginalRef(i)], i, strategy, k)))

\* lines 138-141 and 145-148: the pieces of document i from piece k on
RECURSIVE PieceRefs(_, _, _, _, _, _)
PieceRefs(heap, outs, i, strategy, n, k) ==
    IF k >= n THEN Refs(heap, <<>>, outs)
    ELSE PieceRefs(StampPiece(heap, i, strategy, k),
                   Append(outs, ChunkRef(i, strategy, k)), i, strategy, n, k + 1)

RECURSIVE ChunkRefsLoop(_, _, _, _, _)

\* the loop goes on with what document j left
ChunkRefsNext(r, strategy, splits, j) ==
    ChunkRefsLoop(r.heap, r.outputs, strategy, splits, j)

\* lines 131-153 on the heap, from document j (1-based) on
ChunkRefsLoop(heap, outs, strategy, splits, j) ==
    IF j > Len(splits) THEN Refs(heap, <<>>, outs)
    ELSE IF splits[j].fail
    THEN ChunkRefsLoop(Alloc(heap, OriginalRef(j - 1), heap[Addr("input", j - 1, 0)]),
                       outs, strategy, splits, j + 1)
    ELSE ChunkRefsNext(
             PieceRefs(Alloc(heap, OriginalRef(j - 1), heap[Addr("input", j - 1, 0)]),
                       outs, j - 1, strategy, splits[j].n, 0),
             strategy, splits, j + 1)

\* chunk_documents on the heap
ChunkRefs(documents, strategy, kwarg_keys, ctor, splits) ==
    IF documents = <<>> \/ GetTextSplitter(strategy, kwarg_keys, ctor) # "ok"
    THEN Refs(InputHeap(documents), InputRefs(documents), <<>>)
    ELSE Refs(ChunkRefsLoop(InputHeap(documents), <<>>, strategy, splits, 1).heap,
              InputRefs(documents),
              ChunkRefsLoop(InputHeap(documents), <<>>, strategy, splits, 1).outputs)

\* parsers.py:112 hands el['metadata'] to Document(...) without a copy: the
\* Record holds that very dict when the Document class keeps the dict it is
\* given (pydantic 1 models), a new dict when the class builds its own
\* (pydantic 2 models)
DocumentCtors == {"keeps", "copies"}

ElementRefs(elements_data) ==
    [i \in 1..Len(elements_data) |-> Addr("element", i - 1, 0)]

ElementHeap(elements_data) ==
    [a \in {Addr("element", i - 1, 0) : i \in 1..Len(elements_data)} |->
        elements_data[a[2] + 1].metadata]

RECURSIVE DocumentRefs(_, _, _, _)
DocumentRefs(heap, elements_data, document_ctor, i) ==
    IF i > Len(elements_data) THEN heap
    ELSE DocumentRefs(IF document_ctor = "keeps" THEN heap
                      ELSE Alloc(heap, Addr("Document", i - 1, 0),
                                 heap[Addr("element", i - 1, 0)]),
                      elements_data, document_ctor, i + 1)

\* elements_to_langchain_docs on the heap
ElementsToLangchainDocsRefs(elements_data, document_ctor) ==
    Refs(DocumentRefs(ElementHeap(elements_data), elements_data, document_ctor, 1),
         ElementRefs(elements_data),
         [i \in 1..Len(elements_data) |->
             IF document_ctor = "keeps" THEN Addr("element", i - 1, 0)
             ELSE Addr("Document", i - 1, 0)])

(* ------------------------------- main.py ------------------------------- *)
\* line 99: the types the comprehension keeps; every other value becomes
\* str(v)
KeptTypes == {"str", "int", "float", "bool", "list", "dict", "none"}

Coerce(val) == IF val.t \in KeptTypes THEN val ELSE StrVal(val.v)

SerializableMetadata(metadata) == [k \in DOMAIN metadata |-> Coerce(metadata[k])]

\* what json.dump can encode: scalars, and lists of what it can encode
RECURSIVE JsonEncodable(_)
JsonEncodable(val) ==
    \/ val.t \in {"str", "int", "float", "bool", "none"}
    \/ /\ val.t = "list"
       /\ \A i \in 1..Len(val.v) : JsonEncodable(val.v[i])

\* the output path: whether its parent directory exists, and the file's
\* content ("absent", "old" for a file written earlier by someone else,
\* "complete" for a whole JSON array, "partial" for a truncated one)
File(state, docs) == [state |-> state, docs |-> docs]

Disk(parent, file) == [parent |-> parent, file |-> file]

\* lines 90-113: the write, for a non-empty document list
SaveJson(documents, d) ==
    LET serializable_docs ==
            [i \in 1..Len(documents) |->
                Doc(documents[i].page_content,
                    SerializableMetadata(documents[i].metadata))]
        encodable ==
            \A i \in 1..Len(serializable_docs) :
                \A k \in DOMAIN serializable_docs[i].metadata :
                    JsonEncodable(serializable_docs[i].metadata[k])
    IN  \* os.makedirs, open(output_path, 'w') truncates, json.dump streams
        IF encodable THEN Disk(TRUE, File("complete", serializable_docs))
        ELSE Disk(TRUE, File("partial", <<>>))

AdapterCall(fn) == [fn |-> fn]

\* what the orchestrator leaves behind: it never raises (lines 115-116), so
\* only the calls it made and the output path
Ran(made, d) == [raised |-> "none", calls |-> made, disk |-> d]

\* env holds what the environment does during the call: the glob enumeration
\* and the loaders' outcomes, the splitter's construction and splits, the
\* partitioner's outcome

\* variant: the write is not guarded by `if documents`
Finish_AlwaysWrite(raised, documents, made, d) ==
    IF raised # "none" THEN Ran(made, d)
    ELSE Ran(made, SaveJson(documents, d))

\* lines 90-113: the documents of the last stage are written unless a stage
\* raised or there are none
Finish(raised, documents, made, d) ==
    IF raised # "none" \/ documents = <<>> THEN Ran(made, d)
    ELSE Ran(made, SaveJson(documents, d))

\* the outcome r of an adapter, its own call put before the calls it made
Called(fn, r) == Outcome(r.raised, r.value, <<AdapterCall(fn)>> \o r.calls)

\* the outcome of chunk_documents, reached after the calls made before it
Chunked(chunked, made, d) ==
    Finish(chunked.raised, chunked.value,
           made \o <<AdapterCall("chunk_documents")>> \o chunked.calls, d)

\* lines 63-71: the chunk stage, entered with the loader's outcome
AfterLoad(loaded, process_type, chunk_strategy, env, d) ==
    IF loaded.raised # "none"
    THEN Ran(loaded.calls, d)
    ELSE IF process_type = "load_and_chunk" /\ loaded.value # <<>>
    THEN Chunked(ChunkDocuments(loaded.value, chunk_strategy, {}, env.ctor,
                                [j \in 1..Len(loaded.value) |-> env.split]),
                 loaded.calls, d)
    ELSE Finish("none", loaded.value, loaded.calls, d)

\* lines 46-71 and 90-113: load_only and load_and_chunk
RunLoad(input_path, process_type, chunk_strategy, is_directory, env, d) ==
    IF is_directory
    THEN AfterLoad(Called("load_directory",
                          LoadDirectory(input_path, NoLoader, NoKwargs, TRUE,
                                        env.files, env.outs)),
                   process_type, chunk_strategy, env, d)
    ELSE AfterLoad(Called("load_single_file",
                          LoadSingleFile(input_path, NoLoader, NoKwargs, env.out)),
                   process_type, chunk_strategy, env, d)

\* lines 82-83: the elements become Records
Parsed(parsed, d) ==
    Finish(parsed.raised,
           IF parsed.value # <<>> THEN ElementsToLangchainDocs(parsed.value)
           ELSE <<>>,
           parsed.calls, d)

\* lines 73-83 and 90-113: parse
RunParse(input_path, env, d) ==
    Parsed(Called("parse_file_to_elements",
                  ParseFileToElements(input_path, env.infer, env.has_markdownify,
                                      env.part, env.md_fails)),
           d)

\* variant: an unknown process_type falls into the load branch
ProcessAndSaveToJson_DefaultMode(input_path, process_type, chunk_strategy, is_directory, env, d) ==
    IF process_type = "parse"
    THEN RunParse(input_path, env, d)
    ELSE RunLoad(input_path, process_type, chunk_strategy, is_directory, env, d)

\* lines 44-87: the dispatch on process_type
ProcessAndSaveToJson(input_path, process_type, chunk_strategy, is_directory, env, d) ==
    IF process_type \in {"load_only", "load_and_chunk"}
    THEN RunLoad(input_path, process_type, chunk_strategy, is_directory, env, d)
    ELSE IF process_type = "parse"
    THEN RunParse(input_path, env, d)
    ELSE Ran(<<>>, d)

(* ---------------------------- the state machine ------------------------ *)
\* The pipeline keeps no state between invocations: a behaviour is one call
\* of one entry point, made with the output path in any initial condition.
\*   op      the entry point called ("idle" before the call)
\*   args    the call's arguments and what the environment did during it
\*   result  the exception raised to the caller ("none") and the value returned
\*   calls   the adapters and external libraries invoked, in order
\*   disk    the output path of process_and_save_to_json

OldFile == File("old", <<DocPlain>>)

InitialDisks ==
    { Disk(FALSE, File("absent", <<>>)),
      Disk(TRUE, File("absent", <<>>)),
      Disk(TRUE, OldFile) }

Init ==
    /\ op = "idle"
    /\ args = [none |-> TRUE]
    /\ result = [raised |-> "none", value |-> <<>>]
    /\ calls = <<>>
    /\ disk \in InitialDisks
    /\ refs = NoRefs

Returned(r) == [raised |-> r.raised, value |-> r.value]

\* sequences without repetition of at most MaxFiles directory entries
Enumerations ==
    UNION { { f \in [1..n -> DirEntries] :
                \A i, j \in 1..n : i # j => f[i] # f[j] } : n \in 0..MaxFiles }

ExplicitLoaders == {"TextLoader", "UnstructuredLoader", "WebBaseLoader"}

CallLoadSingleFile ==
    /\ op = "idle"
    /\ \E file_path \in ExistingFiles \cup ExistingDirs \cup MissingPaths,
          loader_cls \in {NoLoader} \cup ExplicitLoaders,
          out \in LoaderOutcomes :
        LET r == LoadSingleFile(file_path, loader_cls, NoKwargs, out)
        IN  /\ op' = "load_single_file"
            /\ args' = [file_path |-> file_path, loader_cls |-> loader_cls,
                        out |-> out]
            /\ result' = Returned(r)
            /\ calls' = r.calls
    /\ UNCHANGED <<disk, refs>>

\* the loader_kwargs a caller of load_directory passes: none, or an encoding
DirectoryKwargs ==
    { NoKwargs, SetKey(NoKwargs, "encoding", StrVal(<<"u", "8">>)) }

CallLoadDirectory ==
    /\ op = "idle"
    /\ \E dir_path \in ExistingDirs \cup MissingPaths \cup {<<"a", ".", "t", "x", "t">>},
          loader_cls \in {NoLoader, "TextLoader"},
          loader_kwargs \in DirectoryKwargs,
          silent_errors \in BOOLEAN,
          files \in Enumerations :
        \E outs \in [1..Len(files) -> LoaderOutcomes] :
            LET r == LoadDirectory(dir_path, loader_cls, loader_kwargs,
                                   silent_errors, files, outs)
            IN  /\ op' = "load_directory"
                /\ args' = [dir_path |-> dir_path, loader_cls |-> loader_cls,
                            loader_kwargs |-> loader_kwargs,
                            silent_errors |-> silent_errors,
                            files |-> files, outs |-> outs]
                /\ result' = Returned(r)
                /\ calls' = r.calls
    /\ UNCHANGED <<disk, refs>>

CallLoadWebPage ==
    /\ op = "idle"
    /\ \E url \in Urls, out \in LoaderOutcomes :
        LET r == LoadWebPage(url, out)
        IN  /\ op' = "load_web_page"
            /\ args' = [url |-> url, out |-> out]
            /\ result' = Returned(r)
            /\ calls' = r.calls
    /\ UNCHANGED <<disk, refs>>

\* the documents chunk_documents is called with: a loaded Record, a Record
\* without source, and a Record that is itself a chunk of an earlier call
ChunkInputA ==
    Doc(<<"t">>, SetKey(SetKey(EmptyMeta, "source", StrVal(<<"a">>)),
                        "author", StrVal(<<"x">>)))
ChunkInputB == Doc(<<"t">>, EmptyMeta)
ChunkInputC ==
    Doc(<<"w">>, SetKey(SetKey(EmptyMeta, "source", StrVal(<<"a">>)),
                        "chunk_id",
                        StrVal(<<"a", "_", "0", "_">> \o Recursive \o <<"_", "0">>)))

ChunkInputs == {ChunkInputA, ChunkInputB, ChunkInputC}

DocumentLists == UNION { [1..n -> ChunkInputs] : n \in 0..MaxDocs }

\* splitting one document throws, or cuts it in n pieces
SplitOutcomes ==
    { [fail |-> TRUE, n |-> 0] } \cup
    { [fail |-> FALSE, n |-> n] : n \in 0..MaxChunks }

SkippedSplit == [fail |-> TRUE, n |-> 0]

CallChunkDocuments ==
    /\ op = "idle"
    /\ \E documents \in DocumentLists,
          strategy \in Strategies,
          kwarg_keys \in SplitterKwargKeys,
          ctor \in CtorOutcomes :
        \E splits \in [1..Len(documents) -> SplitOutcomes] :
            \* what the call never consults is left at one value
            /\ GetTextSplitter(strategy, kwarg_keys, "ok") # "ok" => ctor = "ok"
            /\ GetTextSplitter(strategy, kwarg_keys, ctor) # "ok"
                   => \A j \in 1..Len(documents) : splits[j] = SkippedSplit
            /\ LET r == ChunkDocuments(documents, strategy, kwarg_keys, ctor, splits)
               IN  /\ op' = "chunk_documents"
                   /\ args' = [documents |-> documents, strategy |-> strategy,
                               kwarg_keys |-> kwarg_keys, ctor |-> ctor,
                               splits |-> splits]
                   /\ result' = Returned(r)
                   /\ calls' = r.calls
                   /\ refs' = ChunkRefs(documents, strategy, kwarg_keys, ctor, splits)
    /\ UNCHANGED disk

CallParseFileToElements ==
    /\ op = "idle"
    /\ \E file_path \in {<<"b", ".", "p", "d", "f">>} \cup ExistingDirs \cup MissingPaths,
          infer_table_structure \in BOOLEAN,
          has_markdownify \in BOOLEAN,
          part \in PartitionOutcomes,
          md_fails \in BOOLEAN :
        LET r == ParseFileToElements(file_path, infer_table_structure,
                                     has_markdownify, part, md_fails)
        IN  /\ op' = "parse_file_to_elements"
            /\ args' = [file_path |-> file_path,
                        infer_table_structure |-> infer_table_structure,
                        has_markdownify |-> has_markdownify,
                        part |-> part, md_fails |-> md_fails]
            /\ result' = Returned(r)
            /\ calls' = r.calls
    /\ UNCHANGED <<disk, refs>>

\* the element lists elements_to_langchain_docs is called with: what
\* parse_file_to_elements returns
ElementLists ==
    { ParseFileToElements(<<"b", ".", "p", "d", "f">>, TRUE, TRUE,
                          [fail |-> FALSE, elements |-> e], FALSE).value :
        e \in PartitionOutputs }

CallElementsToLangchainDocs ==
    /\ op = "idle"
    /\ \E elements_data \in ElementLists, document_ctor \in DocumentCtors :
        /\ op' = "elements_to_langchain_docs"
        /\ args' = [elements_data |-> elements_data,
                    document_ctor |-> document_ctor]
        /\ result' = [raised |-> "none",
                      value |-> ElementsToLangchainDocs(elements_data)]
        /\ calls' = <<>>
        /\ refs' = ElementsToLangchainDocsRefs(elements_data, document_ctor)
    /\ UNCHANGED disk

FailedLoad == [fail |-> TRUE, docs |-> <<>>]

DefaultEnv ==
    [files |-> <<>>, outs |-> <<>>, out |-> FailedLoad,
     ctor |-> "ok", split |-> SkippedSplit,
     infer |-> TRUE, has_markdownify |-> TRUE,
     part |-> [fail |-> TRUE, elements |-> <<>>], md_fails |-> FALSE]

\* what the loaders can do during one orchestrated call: every enumerated
\* file meets the same loader outcome
LoadEnvs(is_directory) ==
    IF is_directory
    THEN { [DefaultEnv EXCEPT !.files = f, !.outs = [i \in 1..Len(f) |-> o]] :
             f \in Enumerations, o \in LoaderOutcomes }
    ELSE { [DefaultEnv EXCEPT !.out = o] : o \in LoaderOutcomes }

ChunkEnvs(e) ==
    { [e EXCEPT !.ctor = c, !.split = s] : c \in CtorOutcomes, s \in SplitOutcomes }

ParseEnvs ==
    { [DefaultEnv EXCEPT !.infer = i, !.has_markdownify = h, !.part = p,
                         !.md_fails = m] :
        i \in BOOLEAN, h \in BOOLEAN, p \in PartitionOutcomes, m \in BOOLEAN }

ProcessTypes == {"load_only", "load_and_chunk", "parse", "chunk", "bogus"}

ProcessInputs ==
    { <<"a", ".", "t", "x", "t">>, <<"d", "i", "r">>,
      <<"g", "o", "n", "e", ".", "t", "x", "t">> }

\* the strategies and environments one process_type is exercised with
ProcessStrategies(process_type) ==
    IF process_type = "load_and_chunk" THEN {Recursive, Bogus} ELSE {Recursive}

ProcessEnvs(process_type, is_directory) ==
    CASE process_type = "load_only" -> LoadEnvs(is_directory)
      [] process_type = "load_and_chunk" ->
             UNION { ChunkEnvs(e) : e \in LoadEnvs(is_directory) }
      [] process_type = "parse" -> ParseEnvs
      [] OTHER -> {DefaultEnv}

CallProcessAndSaveToJson ==
    /\ op = "idle"
    /\ \E input_path \in ProcessInputs,
          process_type \in ProcessTypes,
          is_directory \in BOOLEAN :
        \E chunk_strategy \in ProcessStrategies(process_type),
           env \in ProcessEnvs(process_type, is_directory) :
            LET r == ProcessAndSaveToJson(input_path, process_type, chunk_strategy,
                                          is_directory, env, disk)
            IN  /\ op' = "process_and_save_to_json"
                /\ args' = [input_path |-> input_path,
                            process_type |-> process_type,
                            chunk_strategy |-> chunk_strategy,
                            is_directory |-> is_directory,
                            env |-> env, before |-> disk]
                /\ result' = [raised |-> r.raised, value |-> <<>>]
                /\ calls' = r.calls
                /\ disk' = r.disk
                /\ UNCHANGED refs

Next ==
    \/ CallLoadSingleFile
    \/ CallLoadDirectory
    \/ CallLoadWebPage
    \/ CallChunkDocuments
    \/ CallParseFileToElements
    \/ CallElementsToLangchainDocs
    \/ CallProcessAndSaveToJson

Spec == Init /\ [][Next]_vars

(* ============================== the claims ============================= *)

\* the loader each existing file is expected to be given, read off the
\* extension table by hand
ExpectedLoader(p) ==
    CASE p = <<"a", ".", "t", "x", "t">>           -> "TextLoader"
      [] p = <<"a", ".", "T", "X", "T">>           -> "TextLoader"
      [] p = <<"b", ".", "p", "d", "f">>           -> "PyPDFLoader"
      [] p = <<"c", ".", "m", "d">>                -> "UnstructuredMarkdownLoader"
      [] p = <<"d", ".", "c", "s", "v">>           -> "CSVLoader"
      [] p = <<"e", ".", "d", "o", "c", "x">>      -> "Docx2txtLoader"
      [] p = <<"f", ".", "p", "p", "t", "x">>      -> "UnstructuredPowerPointLoader"
      [] p = <<"g", ".", "e", "m", "l">>           -> "UnstructuredEmailLoader"
      [] p = <<"h", ".", "p", "y">>                -> "TextLoader"
      [] p = <<"a", ".", "p", "y", ".", "m", "d">> -> "UnstructuredMarkdownLoader"
      [] OTHER                                     -> "UnstructuredLoader"

\* C1: load_single_file on an existing file constructs exactly one loader:
\* the explicit class when one is given, else the class the extension table
\* maps the file's extension to, else UnstructuredLoader.
Thm_C1 ==
    (op = "load_single_file" /\ args.file_path \in ExistingFiles)
    => /\ Len(calls) = 1
       /\ calls[1].cls = IF args.loader_cls # NoLoader THEN args.loader_cls
                         ELSE ExpectedLoader(args.file_path)

\* a file of an unmapped extension, no explicit class: the fallback is used
Wit_C1 ==
    /\ op = "load_single_file"
    /\ args.file_path = <<"i", ".", "x", "y">>
    /\ args.loader_cls = NoLoader
    /\ Len(calls) = 1
    /\ calls[1].cls = "UnstructuredLoader"

\* C2 (as claimed): load_directory with silent_errors=False raises to its
\* caller when the loader of one enumerated file fails.
Claim_C2 ==
    (/\ op = "load_directory"
     /\ args.dir_path \in ExistingDirs
     /\ ~args.silent_errors
     /\ \E i \in 1..Len(args.files) :
            args.files[i] \in DirFiles /\ args.outs[i].fail)
    => result.raised # "none"

\* the Records one file contributes: the loader's documents, source set to
\* the path where the loader left it out
FileRecords(f, out) ==
    [i \in 1..Len(out.docs) |->
        IF "source" \in DOMAIN out.docs[i].metadata THEN out.docs[i]
        ELSE Doc(out.docs[i].page_content,
                 SetKey(out.docs[i].metadata, "source", StrVal(f)))]

\* the Records of the files enumerated up to position n whose load succeeded
RECURSIVE SuccessfulRecords(_, _, _)
SuccessfulRecords(files, outs, n) ==
    IF n = 0 THEN <<>>
    ELSE SuccessfulRecords(files, outs, n - 1) \o
         (IF files[n] \in DirFiles /\ ~outs[n].fail
          THEN FileRecords(files[n], outs[n]) ELSE <<>>)

\* C3: load_directory with silent_errors=True returns, without raising, the
\* concatenation in enumeration order of the Records of the files that
\* loaded, and nothing of the files that failed.
Thm_C3 ==
    (op = "load_directory" /\ args.dir_path \in ExistingDirs /\ args.silent_errors)
    => /\ result.raised = "none"
       /\ result.value = SuccessfulRecords(args.files, args.outs, Len(args.files))

\* one file fails, the next one loads two Records
Wit_C3 ==
    /\ op = "load_directory"
    /\ args.dir_path \in ExistingDirs
    /\ args.silent_errors
    /\ Len(args.files) = 2
    /\ args.files[1] \in DirFiles /\ args.outs[1].fail
    /\ args.files[2] \in DirFiles /\ ~args.outs[2].fail
    /\ Len(result.value) = 2

\* C4: a missing input yields an empty list, raises nothing and reaches no
\* external loader or partitioner: load_single_file and
\* parse_file_to_elements on a path that does not exist, load_directory on a
\* path that is not a directory.
Thm_C4 ==
    ( \/ op \in {"load_single_file", "parse_file_to_elements"}
         /\ args.file_path \in MissingPaths
      \/ op = "load_directory" /\ args.dir_path \notin ExistingDirs )
    => /\ result.raised = "none"
       /\ result.value = <<>>
       /\ calls = <<>>

\* the parser is called on a missing path while the partitioner would have
\* returned elements
Wit_C4 ==
    /\ op = "parse_file_to_elements"
    /\ args.file_path \in MissingPaths
    /\ ~args.part.fail /\ args.part.elements # <<>>
    /\ result.value = <<>>

\* C5: every Record load_single_file or load_directory returns has a source;
\* load_single_file returns one Record per document of the loader, with the
\* loader's source where it gave one and the file path where it gave none.
Thm_C5 ==
    /\ op \in {"load_single_file", "load_directory"}
       => \A i \in 1..Len(result.value) :
              "source" \in DOMAIN result.value[i].metadata
    /\ (op = "load_single_file" /\ args.file_path \in ExistingFiles
        /\ ~args.out.fail)
       => /\ Len(result.value) = Len(args.out.docs)
          /\ \A i \in 1..Len(result.value) :
                result.value[i].metadata["source"] =
                    IF "source" \in DOMAIN args.out.docs[i].metadata
                    THEN args.out.docs[i].metadata["source"]
                    ELSE StrVal(args.file_path)

\* the loader returns one document without source and one with its own
Wit_C5 ==
    /\ op = "load_single_file"
    /\ args.file_path \in ExistingFiles
    /\ args.out.docs = <<DocPage, DocSource>>
    /\ Len(result.value) = 2
    /\ result.value[1].metadata["source"] = StrVal(args.file_path)
    /\ result.value[2].metadata["source"] = OrigSource

\* C6 (as claimed): load_web_page does not raise; it hands the URL to the web
\* loader in a one-element list and returns the loader's Records, each with
\* the URL as source where the loader gave none.
Claim_C6 ==
    op = "load_web_page"
    => /\ result.raised = "none"
       /\ Len(calls) = 1
       /\ calls[1].cls = "WebBaseLoader"
       /\ calls[1].kwargs["web_paths"] = Val("list", <<StrVal(args.url)>>)
       /\ ~args.out.fail
          => /\ Len(result.value) = Len(args.out.docs)
             /\ \A i \in 1..Len(result.value) :
                   result.value[i].metadata["source"] =
                       IF "source" \in DOMAIN args.out.docs[i].metadata
                       THEN args.out.docs[i].metadata["source"]
                       ELSE StrVal(args.url)

\* the number of chunks document j (1-based) of the call contributes
Contributed(j) == IF args.splits[j].fail THEN 0 ELSE args.splits[j].n

\* the number of chunks the documents before document j contribute
RECURSIVE ChunksBefore(_)
ChunksBefore(j) == IF j = 1 THEN 0 ELSE ChunksBefore(j - 1) + Contributed(j - 1)

\* the chunk at position p of the result is chunk k (0-based) of document j
IsChunkOf(p, j, k) == k < Contributed(j) /\ p = ChunksBefore(j) + k + 1

\* "<source>_<doc_index>_<strategy>_<chunk_index>", the source read from the
\* document's metadata ("doc" for a document without source)
ExpectedChunkId(doc, doc_index, strategy, chunk_index) ==
    (IF "source" \in DOMAIN doc.metadata THEN doc.metadata["source"].v
     ELSE <<"d", "o", "c">>)
    \o <<"_">> \o Digits(doc_index) \o <<"_">> \o strategy \o <<"_">>
    \o Digits(chunk_index)

\* C7: every chunk of one chunk_documents call has the chunk_id
\* "<source>_<doc_index>_<strategy>_<chunk_index>" of the document it was cut
\* from (doc_index the document's position in the input, chunk_index counted
\* from 0 within the document), and no two chunks share a chunk_id.
Thm_C7 ==
    op = "chunk_documents"
    => /\ \A p \in 1..Len(result.value) :
              \E j \in 1..Len(args.documents), k \in 0..(MaxChunks - 1) :
                  /\ IsChunkOf(p, j, k)
                  /\ result.value[p].metadata["chunk_id"] =
                         StrVal(ExpectedChunkId(args.documents[j], j - 1,
                                                args.strategy, k))
       /\ \A p, q \in 1..Len(result.value) :
              p # q => result.value[p].metadata["chunk_id"]
                           # result.value[q].metadata["chunk_id"]

\* the first document is skipped, the second one, of the same source, is cut
\* in two
Wit_C7 ==
    /\ op = "chunk_documents"
    /\ args.documents = <<ChunkInputA, ChunkInputA>>
    /\ args.splits[1].fail
    /\ Len(result.value) = 2
    /\ result.value[2].metadata["chunk_id"] =
           StrVal(<<"a", "_", "1", "_">> \o args.strategy \o <<"_", "1">>)

\* C8 (as claimed): every chunk carries every metadata key of the Record it
\* was cut from, with the parent's value, and a chunk_id.
Claim_C8 ==
    op = "chunk_documents"
    => \A p \in 1..Len(result.value) :
           \A j \in 1..Len(args.documents), k \in 0..(MaxChunks - 1) :
               IsChunkOf(p, j, k)
               => /\ "chunk_id" \in DOMAIN result.value[p].metadata
                  /\ \A key \in DOMAIN args.documents[j].metadata :
                        /\ key \in DOMAIN result.value[p].metadata
                        /\ result.value[p].metadata[key]
                               = args.documents[j].metadata[key]

\* C8 (amended): every chunk carries every metadata key of the Record it was
\* cut from and a chunk_id; every parent key other than chunk_id keeps the
\* parent's value.
Thm_C8 ==
    op = "chunk_documents"
    => \A p \in 1..Len(result.value) :
           \A j \in 1..Len(args.documents), k \in 0..(MaxChunks - 1) :
               IsChunkOf(p, j, k)
               => /\ "chunk_id" \in DOMAIN result.value[p].metadata
                  /\ \A key \in DOMAIN args.documents[j].metadata :
                        /\ key \in DOMAIN result.value[p].metadata
                        /\ key # "chunk_id"
                           => result.value[p].metadata[key]
                                  = args.documents[j].metadata[key]

\* a semantic chunk of a Record with source and author
Wit_C8 ==
    /\ op = "chunk_documents"
    /\ args.strategy = Semantic
    /\ args.documents = <<ChunkInputA>>
    /\ Len(result.value) = 2
    /\ result.value[2].metadata["author"] = StrVal(<<"x">>)

\* C9 (as claimed): chunk_documents on a non-empty list returns an empty list
\* without raising and without splitting when the strategy name is unknown or
\* the splitter's construction fails.
Claim_C9 ==
    (/\ op = "chunk_documents"
     /\ args.documents # <<>>
     /\ \/ args.strategy \notin KnownStrategies
        \/ args.ctor # "ok"
        \/ args.kwarg_keys \cap PositionalNames # {})
    => /\ result.raised = "none"
       /\ result.value = <<>>
       /\ calls = <<>>

\* C10: process_and_save_to_json with a process_type that is none of
\* load_only, load_and_chunk, parse calls no adapter, leaves the output path
\* and its parent directory as they were and does not raise.
Thm_C10 ==
    (/\ op = "process_and_save_to_json"
     /\ args.process_type \notin {"load_only", "load_and_chunk", "parse"})
    => /\ calls = <<>>
       /\ disk = args.before
       /\ result.raised = "none"

\* an unknown mode on an existing file, the output directory missing
Wit_C10 ==
    /\ op = "process_and_save_to_json"
    /\ args.process_type = "bogus"
    /\ args.input_path \in ExistingFiles
    /\ ~disk.parent
    /\ calls = <<>>

\* the loader stage of the orchestrated call hands on no Record
LoaderYieldsNothing ==
    IF args.is_directory
    THEN \/ args.input_path \notin ExistingDirs
         \/ \A i \in 1..Len(args.env.files) :
                \/ args.env.files[i] \notin DirFiles
                \/ args.env.outs[i].fail
                \/ args.env.outs[i].docs = <<>>
    ELSE \/ args.input_path \in MissingPaths
         \/ args.env.out.fail
         \/ args.env.out.docs = <<>>

\* the chunk stage is handed Records and returns none
ChunkerYieldsNothing ==
    /\ ~LoaderYieldsNothing
    /\ \/ args.chunk_strategy \notin KnownStrategies
       \/ args.env.ctor = "ValueError"
       \/ args.env.split.fail
       \/ args.env.split.n = 0

\* the parser returns no element
ParserYieldsNothing ==
    \/ args.input_path \in MissingPaths
    \/ args.env.part.fail
    \/ args.env.part.elements = <<>>
    \/ \E i \in 1..Len(args.env.part.elements) :
           args.env.part.elements[i].text = None

\* C11: when the loader, the chunker or the parser of a
\* process_and_save_to_json call yields no Record, the output path is left as
\* it was: no file and no directory is created, an existing file keeps its
\* content.
Thm_C11 ==
    (/\ op = "process_and_save_to_json"
     /\ \/ args.process_type \in {"load_only", "load_and_chunk"}
           /\ LoaderYieldsNothing
        \/ args.process_type = "load_and_chunk" /\ ChunkerYieldsNothing
        \/ args.process_type = "parse" /\ ParserYieldsNothing)
    => disk = args.before

\* the loader returned Records, the splitter cut them in no piece, and the
\* file written earlier is still there
Wit_C11 ==
    /\ op = "process_and_save_to_json"
    /\ args.process_type = "load_and_chunk"
    /\ ~LoaderYieldsNothing
    /\ args.chunk_strategy = Recursive
    /\ args.env.ctor = "ok"
    /\ ~args.env.split.fail /\ args.env.split.n = 0
    /\ Len(calls) > 2
    /\ args.before = Disk(TRUE, OldFile)
    /\ disk = Disk(TRUE, OldFile)

\* a metadata value with every value json cannot encode, at any depth,
\* replaced by its string form
RECURSIVE StringForm(_)
StringForm(val) ==
    IF val.t \in {"str", "int", "float", "bool", "none"} THEN val
    ELSE IF val.t = "list"
    THEN Val("list", [i \in 1..Len(val.v) |-> StringForm(val.v[i])])
    ELSE StrVal(val.v)

\* C12 (as claimed): for a non-empty Record set (here: the Records
\* load_only loads from one file) the file written is a complete JSON array
\* of one object per Record, in order, with the Record's page_content and
\* metadata, every value json cannot encode replaced by its string form at
\* any depth; the write never fails or leaves a partial file.
Claim_C12 ==
    (/\ op = "process_and_save_to_json"
     /\ args.process_type = "load_only"
     /\ ~args.is_directory
     /\ ~LoaderYieldsNothing)
    => /\ disk.file.state = "complete"
       /\ Len(disk.file.docs) = Len(args.env.out.docs)
       /\ \A i \in 1..Len(disk.file.docs) :
             /\ disk.file.docs[i].page_content = args.env.out.docs[i].page_content
             /\ \A k \in DOMAIN args.env.out.docs[i].metadata :
                   /\ k \in DOMAIN disk.file.docs[i].metadata
                   /\ disk.file.docs[i].metadata[k]
                          = StringForm(args.env.out.docs[i].metadata[k])

\* C13: parse_file_to_elements on an existing path never raises, and returns
\* an empty list when the partitioner or the processing of one element
\* throws, whatever was processed before.
Thm_C13 ==
    (op = "parse_file_to_elements" /\ args.file_path \notin MissingPaths)
    => /\ result.raised = "none"
       /\ ( \/ args.part.fail
            \/ \E i \in 1..Len(args.part.elements) :
                   args.part.elements[i].text = None )
          => result.value = <<>>

\* the second element throws after the first one was processed
Wit_C13 ==
    /\ op = "parse_file_to_elements"
    /\ args.file_path \notin MissingPaths
    /\ args.part.elements = <<ElText, ElNoText>>
    /\ Len(calls) = 1
    /\ result.value = <<>>

\* C14: load_directory with an explicit loader_cls loads every matched file
\* with that class, and passes loader_kwargs on only when loader_cls is given.
Claim_C14 ==
    (op = "load_directory" /\ IsDir(args.dir_path))
    => /\ args.loader_cls # NoLoader
          => \A i \in 1..Len(calls) : calls[i].cls = args.loader_cls
       /\ args.loader_cls = NoLoader
          => \A i \in 1..Len(calls) : calls[i].kwargs = NoKwargs

\* C15: when splitting one document of a chunk_documents batch throws, the
\* call returns normally, that document contributes no chunk, and every other
\* document contributes all of its chunks, in input order.
Thm_C15 ==
    (/\ op = "chunk_documents"
     /\ GetTextSplitter(args.strategy, args.kwarg_keys, args.ctor) = "ok"
     /\ \E j \in 1..Len(args.documents) : args.splits[j].fail)
    => /\ result.raised = "none"
       /\ Len(result.value) = ChunksBefore(Len(args.documents) + 1)
       /\ \A j \in 1..Len(args.documents) :
              \A k \in 0..(Contributed(j) - 1) :
                  LET chunk == result.value[ChunksBefore(j) + k + 1]
                  IN  /\ chunk.page_content
                             = args.documents[j].page_content \o <<"#">> \o Digits(k)
                      /\ chunk.metadata["chunk_id"] =
                             StrVal(ExpectedChunkId(args.documents[j], j - 1,
                                                    args.strategy, k))

\* the split of the first document throws, the second document still gives
\* its two chunks
Wit_C15 ==
    /\ op = "chunk_documents"
    /\ args.documents = <<ChunkInputB, ChunkInputC>>
    /\ args.splits = <<SkippedSplit, [fail |-> FALSE, n |-> 2]>>
    /\ result.raised = "none"
    /\ Len(result.value) = 2
    /\ result.value[1].page_content = <<"w", "#", "0">>
    /\ result.value[2].page_content = <<"w", "#", "1">>

\* C16: no stage modifies or aliases the metadata of the Records it receives.
\* After chunk_documents every input Record's metadata is what it was (no
\* chunk_id was added to it), no two chunks hold the same metadata dict, no
\* chunk holds the dict of an input Record; and no Record built by
\* elements_to_langchain_docs holds the dict of the element it was built from.
Claim_C16 ==
    /\ op = "chunk_documents"
       => /\ \A j \in 1..Len(args.documents) :
                 refs.heap[refs.inputs[j]] = args.documents[j].metadata
          /\ \A p, q \in 1..Len(refs.outputs) :
                 p # q => refs.outputs[p] # refs.outputs[q]
          /\ \A p \in 1..Len(refs.outputs), j \in 1..Len(refs.inputs) :
                 refs.outputs[p] # refs.inputs[j]
    /\ op = "elements_to_langchain_docs"
       => \A i \in 1..Len(refs.outputs) : refs.outputs[i] # refs.inputs[i]

\* the whitespace-normalized text of each element of the model, written out
NormalizedText(element) ==
    CASE element.id = <<"e", "1">> -> <<"a", " ", "b">>
      [] element.id = <<"e", "2">> -> <<"x", " ", "y">>
      [] element.id = <<"e", "3">> -> <<"x", " ", "y">>
      [] element.id = <<"e", "4">> -> <<>>

\* what the HTML-to-markdown library makes of the table's HTML
ConvertedHtml == <<"m", "d", ":", "<", "t", ">">>

\* C17: every element parse_file_to_elements returns has category and
\* element_id in its metadata; its content is the converted HTML when the
\* element is a Table, infer_table_structure is on, text_as_html is there, and
\* the markdown library is available and succeeds; in every other case it is
\* the whitespace-normalized text of the element.
Thm_C17 ==
    op = "parse_file_to_elements"
    => \A i \in 1..Len(result.value) :
           LET element == args.part.elements[i]
               parsed == result.value[i]
           IN  /\ "category" \in DOMAIN parsed.metadata
               /\ parsed.metadata["category"] = StrVal(element.category)
               /\ "element_id" \in DOMAIN parsed.metadata
               /\ parsed.metadata["element_id"] = StrVal(element.id)
               /\ parsed.page_content =
                      IF /\ element.category = "Table"
                         /\ args.infer_table_structure
                         /\ "text_as_html" \in DOMAIN element.metadata
                         /\ args.has_markdownify
                         /\ ~args.md_fails
                      THEN ConvertedHtml
                      ELSE NormalizedText(element)

\* a table with HTML is converted
Wit_C17 ==
    /\ op = "parse_file_to_elements"
    /\ args.part.elements = <<ElTable>>
    /\ args.infer_table_structure /\ args.has_markdownify /\ ~args.md_fails
    /\ Len(result.value) = 1
    /\ result.value[1].page_content = ConvertedHtml
    /\ result.value[1].metadata["category"] = StrVal("Table")

====
